---------------------------- MODULE Spec2Model ----------------------------
(***************************************************************************)
(* A model of edmcoverlay.rs.                                              *)
(*                                                                         *)
(*   - the Xlib handle guard of src/src/x11.rs: the process-wide atomic    *)
(*     XLIB_THREAD_STATE and the two constructors XlibHandle::new and      *)
(*     XlibThreadedHandle::new, run by several threads, one atomic         *)
(*     operation per step;                                                 *)
(*   - the overlay engine of src/src/main.rs: the command channel, the     *)
(*     renderer loop (one command or one tick per iteration, each followed *)
(*     by do_redraw) and the forwarding rule of the listener tasks;        *)
(*   - the listener of src/src/main.rs and the task it spawns for each     *)
(*     connection: reading and parsing a line, tx.send on the bounded      *)
(*     channel, the end of a task.                                         *)
(*                                                                         *)
(* The guard shares no state with the rest in the program (main.rs never   *)
(* asks it for a handle), so it has its own specifications. EngineSpec     *)
(* follows the engine through all it can be sent, with a task's read and   *)
(* send as one step; ListenerSpec follows the tasks step by step;          *)
(* ChannelSpec has one client fill the channel to its capacity.            *)
(***************************************************************************)
EXTENDS Integers, Sequences, FiniteSets, TLC

VARIABLES
    \* ---- x11.rs: the handle guard
    XLIB_THREAD_STATE,  \* the AtomicU8, as the name of the XlibHandleState it holds
    pc,                 \* per thread: where it is inside a constructor
    op,                 \* per thread: the constructor it called last
    ret,                \* per thread: what that call returned
    nExclusive,         \* XlibHandle values alive
    nShared,            \* XlibThreadedHandle values alive
    initCalls,          \* calls of ffi::XInitThreads made so far
    \* ---- main.rs: the overlay engine
    graphics,           \* renderer's HashMap<(usize, String), Option<Graphic>>
    chan,               \* the mpsc channel: commands sent and not yet received
    engine,             \* "starting" | "running" | "failed"
    lastEvent,          \* what the latest do_redraw was called for
    lastSnapshot,       \* the `graphics` argument of the latest do_redraw
    lastExpired,        \* the `expired` argument of the latest do_redraw
    nLines,             \* lines the listener tasks have parsed so far
    nTicks,             \* interval ticks taken so far
    nRedraws,           \* calls of do_redraw made so far
    \* ---- main.rs: the listener and its per-connection tasks
    client_id,          \* listener's counter of accepted connections
    task,               \* per accepted connection: where its task is, and its last line
    \* ---- main.rs: the two tasks main spawns, and the process
    listener,           \* the listener task: "running" | "failed"
    process,            \* "running", or exited with the failure of one of the tasks
    \* ---- graphics_data.rs: one Color conversion, from its input to its results
    color

guardVars == <<XLIB_THREAD_STATE, pc, op, ret, nExclusive, nShared, initCalls>>
engineVars ==
    <<graphics, chan, engine, lastEvent, lastSnapshot, lastExpired, nLines, nTicks,
      nRedraws>>
listenerVars == <<client_id, task>>
mainVars == <<listener, process>>
colorVars == <<color>>
vars == <<guardVars, engineVars, listenerVars, mainVars, colorVars>>

-----------------------------------------------------------------------------
(* Bounds of the model. *)

NThreads == 3      \* threads that call the constructors
MaxHandles == 3    \* a call starts only while fewer handles than this are alive or under way
MaxLines == 2      \* lines the clients send in one run
MaxTicks == 3      \* interval ticks in one run
MaxConns == 2      \* connections the listener accepts in one run
MaxOverflow == 2   \* lines the client of ChannelSpec sends beyond the channel's capacity
UsizeBits == 2     \* bits of a usize in the model (the program's usize has 64)
MaxColorLen == 8   \* characters of a string given to Color's try_from

Threads == 1 .. NThreads


-----------------------------------------------------------------------------
(* x11.rs: the handle guard. *)

XlibHandleState ==
    {"Unchosen", "SingleThreaded", "ExSingleThreaded", "MultiThreadedPending",
     "MultiThreaded"}

\* AtomicU8::compare_exchange seen as one atomic step on a register holding `cur`:
\* ok/val are the Ok(_)/Err(_) it returns, next is what the register holds afterwards.
\* CompareExchangeSwap is the variant that stores without comparing (a swap).
CompareExchangeSwap(cur, expected, new) ==
    [ok |-> TRUE, val |-> cur, next |-> new]

CompareExchange(cur, expected, new) ==
    [ok |-> cur = expected,
     val |-> cur,
     next |-> IF cur = expected THEN new ELSE cur]

\* The arms of the outer match of XlibHandle::new, on the result r of
\* compare_exchange(Unchosen, SingleThreaded). ExclusiveMatchLenient is the variant
\* that hands out a handle in the Err(SingleThreaded) arm.
ExclusiveMatchLenient(r) ==
    IF r.ok
    THEN IF r.val = "Unchosen" THEN "Some" ELSE "panic"
    ELSE CASE r.val = "Unchosen" -> "panic"
           [] r.val = "SingleThreaded" -> "Some"
           [] r.val = "ExSingleThreaded" -> "second"
           [] r.val = "MultiThreadedPending" -> "continue"
           [] r.val = "MultiThreaded" -> "Some"

\* ExclusiveMatchBusy is the variant that answers None in the Err(MultiThreaded) arm.
ExclusiveMatchBusy(r) ==
    IF r.ok
    THEN IF r.val = "Unchosen" THEN "Some" ELSE "panic"
    ELSE CASE r.val = "Unchosen" -> "panic"
           [] r.val = "SingleThreaded" -> "None"
           [] r.val = "ExSingleThreaded" -> "second"
           [] r.val = "MultiThreadedPending" -> "continue"
           [] r.val = "MultiThreaded" -> "None"

ExclusiveMatch(r) ==
    IF r.ok
    THEN IF r.val = "Unchosen" THEN "Some" ELSE "panic"          \* unreachable!()
    ELSE CASE r.val = "Unchosen" -> "panic"                      \* unreachable!()
           [] r.val = "SingleThreaded" -> "None"
           [] r.val = "ExSingleThreaded" -> "second"
           [] r.val = "MultiThreadedPending" -> "continue"
           [] r.val = "MultiThreaded" -> "Some"

\* The arms of the inner match of XlibHandle::new, on the result r of
\* compare_exchange(ExSingleThreaded, SingleThreaded).
ExclusiveMatchSecond(r) ==
    IF r.ok
    THEN IF r.val = "ExSingleThreaded" THEN "Some" ELSE "panic"  \* unreachable!()
    ELSE CASE r.val = "ExSingleThreaded" -> "panic"              \* unreachable!()
           [] r.val = "MultiThreadedPending" -> "panic"          \* panic!(..)
           [] r.val = "MultiThreaded" -> "panic"                 \* panic!(..)
           [] r.val = "Unchosen" -> "panic"                      \* panic!(..)
           [] r.val = "SingleThreaded" -> "None"

\* The arms of the match of XlibThreadedHandle::new, on the result r of
\* compare_exchange(Unchosen, MultiThreadedPending). ThreadedMatchFatal is the variant
\* that panics in the Err(SingleThreaded) | Err(ExSingleThreaded) arm, and
\* ThreadedMatchEager the one that returns a handle in the Err(MultiThreadedPending)
\* arm instead of looping.
ThreadedMatchFatal(r) ==
    IF r.ok
    THEN IF r.val = "Unchosen" THEN "init" ELSE "panic"
    ELSE CASE r.val = "Unchosen" -> "panic"
           [] r.val \in {"SingleThreaded", "ExSingleThreaded"} -> "panic"
           [] r.val = "MultiThreadedPending" -> "continue"
           [] r.val = "MultiThreaded" -> "Some"

ThreadedMatchEager(r) ==
    IF r.ok
    THEN IF r.val = "Unchosen" THEN "init" ELSE "panic"
    ELSE CASE r.val = "Unchosen" -> "panic"
           [] r.val \in {"SingleThreaded", "ExSingleThreaded"} -> "None"
           [] r.val = "MultiThreadedPending" -> "Some"
           [] r.val = "MultiThreaded" -> "Some"

ThreadedMatch(r) ==
    IF r.ok
    THEN IF r.val = "Unchosen" THEN "init" ELSE "panic"          \* unreachable!()
    ELSE CASE r.val = "Unchosen" -> "panic"                      \* unreachable!()
           [] r.val \in {"SingleThreaded", "ExSingleThreaded"} -> "None"
           [] r.val = "MultiThreadedPending" -> "continue"
           [] r.val = "MultiThreaded" -> "Some"

\* What dropping an XlibHandle does to the register: XlibHandle has no Drop impl,
\* and the one Drop impl of the file (Display) has an empty body.
\* DropExclusiveResets is the variant that stores ExSingleThreaded whatever it finds.
DropExclusiveResets(s) == "ExSingleThreaded"

DropExclusiveState(s) == s

InFlight == Cardinality({t \in Threads : pc[t] \notin {"idle", "panicked"}})

MayCall(t) ==
    /\ pc[t] = "idle"
    /\ nExclusive + nShared + InFlight < MaxHandles

\* A thread enters XlibHandle::new.
CallExclusive(t) ==
    /\ MayCall(t)
    /\ pc' = [pc EXCEPT ![t] = "ex_cas"]
    /\ op' = [op EXCEPT ![t] = "exclusive"]
    /\ ret' = [ret EXCEPT ![t] = "pending"]
    /\ UNCHANGED <<XLIB_THREAD_STATE, nExclusive, nShared, initCalls, engineVars, listenerVars, mainVars, colorVars>>

\* The outcome `o` of a match arm of XlibHandle::new, for thread t.
ExclusiveOutcome(t, o) ==
    /\ pc' = [pc EXCEPT ![t] = CASE o = "second" -> "ex_cas2"
                                  [] o = "continue" -> "ex_cas"
                                  [] o = "panic" -> "panicked"
                                  [] OTHER -> "idle"]
    /\ ret' = [ret EXCEPT ![t] = IF o \in {"Some", "None", "panic"} THEN o ELSE @]
    /\ nExclusive' = IF o = "Some" THEN nExclusive + 1 ELSE nExclusive

\* One atomic operation of XlibHandle::new: the first compare_exchange and its
\* match, or (after Err(ExSingleThreaded)) the second one and its match.
ExclusiveStep(t) ==
    /\ pc[t] \in {"ex_cas", "ex_cas2"}
    /\ LET r == IF pc[t] = "ex_cas"
                THEN CompareExchange(XLIB_THREAD_STATE, "Unchosen", "SingleThreaded")
                ELSE CompareExchange(XLIB_THREAD_STATE, "ExSingleThreaded",
                                     "SingleThreaded")
           o == IF pc[t] = "ex_cas" THEN ExclusiveMatch(r) ELSE ExclusiveMatchSecond(r)
       IN /\ XLIB_THREAD_STATE' = r.next
          /\ ExclusiveOutcome(t, o)
    /\ UNCHANGED <<op, nShared, initCalls, engineVars, listenerVars, mainVars, colorVars>>

\* An XlibHandle goes out of scope.
DropExclusive ==
    /\ nExclusive > 0
    /\ nExclusive' = nExclusive - 1
    /\ XLIB_THREAD_STATE' = DropExclusiveState(XLIB_THREAD_STATE)
    /\ UNCHANGED <<pc, op, ret, nShared, initCalls, engineVars, listenerVars, mainVars, colorVars>>

\* A thread enters XlibThreadedHandle::new.
CallThreaded(t) ==
    /\ MayCall(t)
    /\ pc' = [pc EXCEPT ![t] = "th_cas"]
    /\ op' = [op EXCEPT ![t] = "shared"]
    /\ ret' = [ret EXCEPT ![t] = "pending"]
    /\ UNCHANGED <<XLIB_THREAD_STATE, nExclusive, nShared, initCalls, engineVars, listenerVars, mainVars, colorVars>>

\* The compare_exchange of XlibThreadedHandle::new and its match; the Ok arm goes on
\* to XInitThreads, `continue` comes back here.
ThreadedCas(t) ==
    /\ pc[t] = "th_cas"
    /\ LET r == CompareExchange(XLIB_THREAD_STATE, "Unchosen", "MultiThreadedPending")
           o == ThreadedMatch(r)
       IN /\ XLIB_THREAD_STATE' = r.next
          /\ pc' = [pc EXCEPT ![t] = CASE o = "init" -> "th_init"
                                        [] o = "continue" -> "th_cas"
                                        [] o = "panic" -> "panicked"
                                        [] OTHER -> "idle"]
          /\ ret' = [ret EXCEPT ![t] = IF o \in {"Some", "None", "panic"} THEN o ELSE @]
          /\ nShared' = IF o = "Some" THEN nShared + 1 ELSE nShared
    /\ UNCHANGED <<op, nExclusive, initCalls, engineVars, listenerVars, mainVars, colorVars>>

\* unsafe { ffi::XInitThreads(); }
ThreadedInit(t) ==
    /\ pc[t] = "th_init"
    /\ initCalls' = initCalls + 1
    /\ pc' = [pc EXCEPT ![t] = "th_store"]
    /\ UNCHANGED <<XLIB_THREAD_STATE, op, ret, nExclusive, nShared, engineVars, listenerVars, mainVars, colorVars>>

\* XLIB_THREAD_STATE.store(MultiThreaded); Some(XlibThreadedHandle(()))
ThreadedStore(t) ==
    /\ pc[t] = "th_store"
    /\ XLIB_THREAD_STATE' = "MultiThreaded"
    /\ pc' = [pc EXCEPT ![t] = "idle"]
    /\ ret' = [ret EXCEPT ![t] = "Some"]
    /\ nShared' = nShared + 1
    /\ UNCHANGED <<op, nExclusive, initCalls, engineVars, listenerVars, mainVars, colorVars>>

\* An XlibThreadedHandle goes out of scope ("no Drop impl required").
DropThreaded ==
    /\ nShared > 0
    /\ nShared' = nShared - 1
    /\ UNCHANGED <<XLIB_THREAD_STATE, pc, op, ret, nExclusive, initCalls, engineVars, listenerVars, mainVars, colorVars>>


ThreadedNext ==
    \/ \E t \in Threads : CallThreaded(t)
    \/ \E t \in Threads : ThreadedCas(t)
    \/ \E t \in Threads : ThreadedInit(t)
    \/ \E t \in Threads : ThreadedStore(t)
    \/ DropThreaded

GuardNext ==
    \/ \E t \in Threads : CallExclusive(t)
    \/ \E t \in Threads : ExclusiveStep(t)
    \/ DropExclusive
    \/ ThreadedNext

-----------------------------------------------------------------------------
(* main.rs: the overlay engine. *)

FPS == 1
ChannelCapacity == 100

Clients == {1, 2}
Ids == {"a", "b"}
Ttls == {-1, 0, 1, 2}
\* Option<Drawable>, by variant; the coordinates, colours and texts are left out.
NoDrawable == "None"
Drawables == {"Rectangle", "Text"}

\* The key and the value the renderer inserts before its loop.
VersionKey == <<0, "version-number">>
VersionGraphic ==
    [id |-> "test-rect", ttl |-> -1, drawable |-> "Text", uid |-> 0, ttl0 |-> -1, age |-> 0]

\* A parsed line. Beside the fields of Graphic a value carries three history fields:
\* uid (the number of the line it came from), ttl0 (its ttl when it was inserted)
\* and age (the ticks it has been through since).
LineGraphic(i, t, d, u) ==
    [id |-> i, ttl |-> t, drawable |-> d, uid |-> u, ttl0 |-> t, age |-> 0]

\* Option<Graphic>, the value type of the map.
NoneSlot == [some |-> FALSE]
SomeSlot(g) == [some |-> TRUE, graphic |-> g]

Range(f) == {f[x] : x \in DOMAIN f}
Orderings(S) ==
    {q \in [1 .. Cardinality(S) -> S] : \A i, j \in DOMAIN q : i # j => q[i] # q[j]}
Occurrences(q, u) == Cardinality({i \in DOMAIN q : q[i].uid = u})
LiveUids(m) == {m[k].graphic.uid : k \in {x \in DOMAIN m : m[x].some}}

\* listener: which parsed lines become a Command. ForwardedAlways is the variant
\* that sends every parsed line.
ForwardedAlways(g) == TRUE

Forwarded(g) == g.drawable # NoDrawable \/ g.ttl = 0

\* do_redraw: both loops unwrap the slot and its drawable.
RedrawPanics(snapshot, expired) ==
    \/ \E i \in DOMAIN expired : expired[i].drawable = NoDrawable
    \/ \E k \in DOMAIN snapshot :
          \/ ~snapshot[k].some
          \/ snapshot[k].graphic.drawable = NoDrawable

DoRedraw(snapshot, expired, event) ==
    /\ lastSnapshot' = snapshot
    /\ lastExpired' = expired
    /\ lastEvent' = event
    /\ engine' = IF RedrawPanics(snapshot, expired) THEN "failed" ELSE "running"
    /\ nRedraws' = nRedraws + 1

\* command.graphic.ttl *= isize::try_from(FPS)?
\* ScaleTtlTwice is the variant that applies the factor twice over.
ScaleTtlTwice(g) == [g EXCEPT !.ttl = @ * 2 * FPS, !.ttl0 = @ * 2 * FPS]

ScaleTtl(g) == [g EXCEPT !.ttl = @ * FPS, !.ttl0 = @ * FPS]

\* HashMap::insert: the new map and the Option<V> it returns (the value the key
\* held before). InsertKeepsOld is the variant that leaves an occupied key alone.
InsertKeepsOld(m, k, v) ==
    [map |-> IF k \in DOMAIN m
             THEN m
             ELSE [x \in DOMAIN m \cup {k} |-> IF x = k THEN v ELSE m[x]],
     old |-> IF k \in DOMAIN m THEN [some |-> TRUE, value |-> m[k]] ELSE [some |-> FALSE]]

\* InsertById is the variant of the map keyed by the graphic id alone: the new value
\* takes the place of every entry that has its id, whichever client sent it.
InsertById(m, k, v) ==
    LET same == {x \in DOMAIN m : x[2] = k[2]}
        others == DOMAIN m \ same
    IN [map |-> [x \in others \cup {k} |-> IF x = k THEN v ELSE m[x]],
        old |-> IF same # {}
                THEN [some |-> TRUE, value |-> m[CHOOSE x \in same : TRUE]]
                ELSE [some |-> FALSE]]

Insert(m, k, v) ==
    [map |-> [x \in DOMAIN m \cup {k} |-> IF x = k THEN v ELSE m[x]],
     old |-> IF k \in DOMAIN m THEN [some |-> TRUE, value |-> m[k]] ELSE [some |-> FALSE]]

\* if let Some(Some(graphic)) = graphics.insert(..) { expired.push(graphic); }
\* ReplacedForgotten is the variant that pushes nothing.
ReplacedForgotten(old) == << >>

Replaced(old) ==
    IF old.some /\ old.value.some THEN <<old.value.graphic>> ELSE << >>

\* The body of the for loop of the tick arm, for one slot. SweepSlotEarly is the
\* variant that also takes out a slot whose ttl is about to reach 0.
SweepSlotEarly(slot) ==
    IF ~slot.some THEN slot
    ELSE IF slot.graphic.ttl = 0 \/ slot.graphic.ttl = 1 THEN NoneSlot
    ELSE IF slot.graphic.ttl > 0 THEN [slot EXCEPT !.graphic.ttl = @ - 1]
    ELSE slot

\* SweepSlotPastZero is the variant that counts every ttl from 0 up down by one
\* and takes no slot out.
SweepSlotPastZero(slot) ==
    IF ~slot.some THEN slot
    ELSE IF slot.graphic.ttl >= 0 THEN [slot EXCEPT !.graphic.ttl = @ - 1]
    ELSE slot

\* SweepSlotAgesAll is the variant that counts down every ttl other than 0, the
\* negative ones too.
SweepSlotAgesAll(slot) ==
    IF ~slot.some THEN slot
    ELSE IF slot.graphic.ttl = 0 THEN NoneSlot
    ELSE [slot EXCEPT !.graphic.ttl = IF @ = -1 THEN 0 ELSE @ - 1]

SweepSlot(slot) ==
    IF ~slot.some THEN slot                                  \* if let Some(..)
    ELSE IF slot.graphic.ttl = 0 THEN NoneSlot               \* graphic.take()
    ELSE IF slot.graphic.ttl > 0 THEN [slot EXCEPT !.graphic.ttl = @ - 1]
    ELSE slot

\* graphics.retain(|_, v| v.is_some()); RetainAll is the variant that keeps all.
RetainAll(m) == m

Retain(m) ==
    LET keep == {k \in DOMAIN m : m[k].some} IN [k \in keep |-> m[k]]

\* History only: every value in the map has been through one more tick.
Older(m) ==
    [k \in DOMAIN m |-> IF m[k].some THEN [m[k] EXCEPT !.graphic.age = @ + 1] ELSE m[k]]

\* A listener task has parsed a line of client c into a Graphic and, when the rule
\* says so, sends the Command: the steps ReadLine and Send of a task (below) taken
\* as one, as they are while the channel has room and the engine is alive.
SubmitLine(c, i, t, d) ==
    /\ nLines < MaxLines
    /\ engine # "failed"
    /\ Len(chan) < ChannelCapacity
    /\ nLines' = nLines + 1
    /\ LET g == LineGraphic(i, t, d, nLines + 1)
       IN chan' = IF Forwarded(g)
                  THEN Append(chan, [client_id |-> c, graphic |-> g])
                  ELSE chan
    /\ UNCHANGED <<graphics, engine, lastEvent, lastSnapshot, lastExpired, nTicks, nRedraws,
                 guardVars, listenerVars, mainVars, colorVars>>

\* StartSkipsRedraw is the variant of the renderer that enters its loop without the
\* redraw before it.
StartSkipsRedraw ==
    /\ engine = "starting"
    /\ engine' = "running"
    /\ UNCHANGED <<graphics, chan, lastEvent, lastSnapshot, lastExpired, nLines, nTicks,
                 nRedraws, guardVars, listenerVars, mainVars, colorVars>>

\* renderer: the redraw before the loop.
Start ==
    /\ engine = "starting"
    /\ DoRedraw(graphics, << >>, "start")
    /\ UNCHANGED <<graphics, chan, nLines, nTicks, guardVars, listenerVars, mainVars, colorVars>>

\* rx.recv() on a channel that holds commands: the command it yields and what stays
\* in the channel. The channel is first in, first out. RecvNewest is the variant
\* that yields the command sent last.
RecvNewest(q) == [command |-> q[Len(q)], rest |-> SubSeq(q, 1, Len(q) - 1)]

Recv(q) == [command |-> Head(q), rest |-> Tail(q)]

\* renderer: the rx.recv() arm of the select.
Receive ==
    /\ engine = "running"
    /\ chan # << >>
    /\ LET command == Recv(chan).command
           g == ScaleTtl(command.graphic)
           r == Insert(graphics, <<command.client_id, g.id>>, SomeSlot(g))
       IN /\ graphics' = r.map
          /\ DoRedraw(r.map, Replaced(r.old), "command")
    /\ chan' = Recv(chan).rest
    /\ UNCHANGED <<nLines, nTicks, guardVars, listenerVars, mainVars, colorVars>>

\* renderer: the interval.tick() arm of the select. The loop pushes the values it
\* takes out in the iteration order of the HashMap, which is unspecified.
Tick ==
    /\ engine = "running"
    /\ nTicks < MaxTicks
    /\ nTicks' = nTicks + 1
    /\ LET before == Older(graphics)
           swept == [k \in DOMAIN before |-> SweepSlot(before[k])]
           taken == {before[k].graphic :
                        k \in {x \in DOMAIN before : before[x].some /\ ~swept[x].some}}
           kept == Retain(swept)
       IN /\ graphics' = kept
          /\ \E expired \in Orderings(taken) : DoRedraw(kept, expired, "tick")
    /\ UNCHANGED <<chan, nLines, guardVars, listenerVars, mainVars, colorVars>>

EngineNext ==
    \/ \E c \in Clients, i \in Ids, t \in Ttls, d \in Drawables \cup {NoDrawable} :
          SubmitLine(c, i, t, d)
    \/ Start
    \/ Receive
    \/ Tick

\* The engine with one client that sends Text graphics and deletions.
TickNext ==
    \/ \E i \in Ids, t \in Ttls, d \in {"Text", NoDrawable} : SubmitLine(1, i, t, d)
    \/ Start
    \/ Receive
    \/ Tick

-----------------------------------------------------------------------------
(* main.rs: the listener and the tasks it spawns, one per connection. *)

\* What the listener tasks read in the runs of ListenerSpec: a line is either not
\* the JSON of a Graphic (wellFormed is FALSE), or gives id and ttl, with or without
\* the fields of a Drawable.
ListenerIds == {"a"}
ListenerTtls == {0, 1}
BadLine == [wellFormed |-> FALSE, id |-> "", ttl |-> 0, drawable |-> NoDrawable]
GoodLines ==
    [wellFormed : {TRUE}, id : ListenerIds, ttl : ListenerTtls,
     drawable : {"Text", NoDrawable}]
ListenerLines == GoodLines \cup {BadLine}

\* Lines that are the JSON of an object with id and ttl and with the fields of a
\* Drawable, one of them a Color or a Size that is not valid ("color": "purple").
InvalidDrawable == "Invalid"
InvalidLines ==
    [wellFormed : {TRUE}, id : ListenerIds, ttl : ListenerTtls, drawable : {InvalidDrawable}]
ParseLines == ListenerLines \cup InvalidLines

\* A line that names the id of the renderer's built-in entry.
VersionLine == [wellFormed |-> TRUE, id |-> VersionKey[2], ttl |-> -1, drawable |-> "Text"]

\* The line the single client of ChannelSpec sends over and over.
BurstLine == [wellFormed |-> TRUE, id |-> "a", ttl |-> -1, drawable |-> "Text"]

\* #[serde(flatten)] drawable: Option<Drawable>, Drawable being #[serde(untagged)]:
\* the variants of Drawable are tried on the fields that id and ttl leave, and an
\* error of the attempt, that of a Color or Size inside it included, is not returned:
\* the field is None (the listener's warn!(.., "invalid drawable") is for this case).
FlattenOption(d) == IF d \in Drawables THEN d ELSE NoDrawable

\* serde_json::from_str::<Graphic>(&line): Err for a line that is not the JSON of a
\* Graphic; otherwise the Graphic, its drawable None when the line has no Drawable.
\* u is the number of the line (history).
ParseLine(ln, u) ==
    IF ln.wellFormed
    THEN [ok |-> TRUE, graphic |-> LineGraphic(ln.id, ln.ttl, FlattenOption(ln.drawable), u)]
    ELSE [ok |-> FALSE]

\* The value of a task's `line`: none read yet, one that did not parse, a Graphic.
NoLine == [kind |-> "none", uid |-> 0]
ErrorLine(u) == [kind |-> "error", uid |-> u]
GraphicLine(g) == [kind |-> "graphic", uid |-> g.uid, graphic |-> g]

\* A task as spawned: it waits for a line. `bad` and `invalid` are history: the
\* number of the last line of the connection that did not parse, and of the last one
\* that had an invalid Color or Size among the fields of its Drawable.
NewTask(c) ==
    [client_id |-> c, status |-> "reading", line |-> NoLine, bad |-> 0, invalid |-> 0]

\* Err(e) => eprintln!(..): the loop goes on. ParseErrorEndsTask is the variant
\* that returns the error from the task.
ParseErrorEndsTask == "failed"

AfterParseError == "reading"

\* The match on the parse result, up to the call of tx.send.
AfterLine(t, p, u) ==
    IF ~p.ok
    THEN [t EXCEPT !.status = AfterParseError, !.line = ErrorLine(u), !.bad = u]
    ELSE [t EXCEPT !.status = IF Forwarded(p.graphic) THEN "sending" ELSE "reading",
                   !.line = GraphicLine(p.graphic)]

\* tx.send(command).await on the bounded channel q: Err when the receiver is gone;
\* the command appended when there is room; no answer yet (the sender stays
\* suspended) when the channel is full. SendResultLossy is the variant that answers
\* Ok on a full channel and lets the command go; SendResultUnbounded is the variant
\* that appends whatever the length.
SendResultLossy(q, command, alive) ==
    IF ~alive THEN [outcome |-> "closed", chan |-> q]
    ELSE IF Len(q) < ChannelCapacity THEN [outcome |-> "sent", chan |-> Append(q, command)]
    ELSE [outcome |-> "sent", chan |-> q]

SendResultUnbounded(q, command, alive) ==
    IF ~alive THEN [outcome |-> "closed", chan |-> q]
    ELSE [outcome |-> "sent", chan |-> Append(q, command)]

SendResult(q, command, alive) ==
    IF ~alive THEN [outcome |-> "closed", chan |-> q]
    ELSE IF Len(q) < ChannelCapacity THEN [outcome |-> "sent", chan |-> Append(q, command)]
    ELSE [outcome |-> "full", chan |-> q]

\* The `?` after tx.send(..).await: Ok goes back to reading, Err ends the task.
\* TaskAfterSendIgnoresError is the variant that reads on after an Err.
TaskAfterSendIgnoresError(outcome) == "reading"

TaskAfterSend(outcome) == IF outcome = "sent" THEN "reading" ELSE "failed"

\* The Command a task in tx.send is sending.
Pending(t) == [client_id |-> t.client_id, graphic |-> t.line.graphic]

\* usize: the values are 0 .. UsizeModulus - 1.
UsizeModulus == 2 ^ UsizeBits

\* usize::wrapping_add. WrappingAddSaturates is the variant that stays at the
\* largest value.
WrappingAddSaturates(x, y) ==
    IF x + y >= UsizeModulus THEN UsizeModulus - 1 ELSE x + y

WrappingAdd(x, y) == (x + y) % UsizeModulus

\* listener: accept, count, spawn, while fewer than `limit` connections have been
\* accepted.
Accept(limit) ==
    /\ listener = "running"
    /\ Len(task) < limit
    /\ client_id' = WrappingAdd(client_id, 1)
    /\ task' = Append(task, NewTask(WrappingAdd(client_id, 1)))
    /\ UNCHANGED <<engineVars, guardVars, mainVars, colorVars>>

\* A task gets a line from lines.next_line() and matches on its parse.
ReadLine(n, ln, limit) ==
    /\ n \in DOMAIN task
    /\ task[n].status = "reading"
    /\ nLines < limit
    /\ nLines' = nLines + 1
    /\ task' = [task EXCEPT ![n] =
                   [AfterLine(@, ParseLine(ln, nLines + 1), nLines + 1) EXCEPT
                       !.invalid = IF ln.drawable = InvalidDrawable THEN nLines + 1 ELSE @]]
    /\ UNCHANGED <<graphics, chan, engine, lastEvent, lastSnapshot, lastExpired, nTicks,
                 nRedraws, client_id, guardVars, mainVars, colorVars>>

\* tx.send(..).await answers a task and the task goes on from its `?`.
Send(n) ==
    /\ n \in DOMAIN task
    /\ task[n].status = "sending"
    /\ LET r == SendResult(chan, Pending(task[n]), engine # "failed")
       IN /\ r.outcome # "full"
          /\ chan' = r.chan
          /\ task' = [task EXCEPT ![n].status = TaskAfterSend(r.outcome)]
    /\ UNCHANGED <<graphics, engine, lastEvent, lastSnapshot, lastExpired, nLines, nTicks,
                 nRedraws, client_id, guardVars, mainVars, colorVars>>

\* ClosePurges is the variant in which the end of a connection takes the entries of
\* its client out of the map.
ClosePurges(n) ==
    /\ n \in DOMAIN task
    /\ task[n].status = "reading"
    /\ task' = [task EXCEPT ![n].status = "closed"]
    /\ graphics' = [k \in {x \in DOMAIN graphics : x[1] # task[n].client_id} |-> graphics[k]]
    /\ UNCHANGED <<chan, engine, lastEvent, lastSnapshot, lastExpired, nLines, nTicks,
                 nRedraws, client_id, guardVars, mainVars, colorVars>>

\* The client closes the connection: next_line() yields None and the task returns.
Close(n) ==
    /\ n \in DOMAIN task
    /\ task[n].status = "reading"
    /\ task' = [task EXCEPT ![n].status = "closed"]
    /\ UNCHANGED <<engineVars, client_id, guardVars, mainVars, colorVars>>

ListenerNext ==
    \/ Accept(MaxConns)
    \/ \E n \in DOMAIN task, ln \in ListenerLines : ReadLine(n, ln, MaxLines)
    \/ \E n \in DOMAIN task : Send(n)
    \/ \E n \in DOMAIN task : Close(n)
    \/ Start
    \/ Receive
    \/ Tick

\* The listener accepting connections until its counter has wrapped, the clients
\* closing them.
AcceptNext ==
    \/ Accept(UsizeModulus + MaxConns)
    \/ \E n \in DOMAIN task : Close(n)

\* One client whose lines may have an invalid Color or Size.
ParseNext ==
    \/ Accept(1)
    \/ \E n \in DOMAIN task, ln \in ParseLines : ReadLine(n, ln, MaxLines)
    \/ \E n \in DOMAIN task : Send(n)
    \/ \E n \in DOMAIN task : Close(n)
    \/ Start
    \/ Receive

\* The listener accepting connections until its counter is back at 0, the clients
\* sending lines for the id of the built-in entry.
WrapNext ==
    \/ Accept(UsizeModulus)
    \/ \E n \in DOMAIN task : ReadLine(n, VersionLine, MaxLines)
    \/ \E n \in DOMAIN task : Send(n)
    \/ Start
    \/ Receive

\* One client that sends the same line until the channel is full and past it.
ChannelNext ==
    \/ Accept(1)
    \/ \E n \in DOMAIN task : ReadLine(n, BurstLine, ChannelCapacity + MaxOverflow)
    \/ \E n \in DOMAIN task : Send(n)
    \/ Start
    \/ Receive
    \/ Tick

-----------------------------------------------------------------------------
(* graphics_data.rs: Color, and its conversions from and into a string.    *)
(* A string is the sequence of its characters.                             *)

\* The digits `{:x}` writes and the digits `{:X}` would write, by value.
LowerHex == <<"0", "1", "2", "3", "4", "5", "6", "7", "8", "9", "a", "b", "c", "d", "e", "f">>
UpperHex == <<"0", "1", "2", "3", "4", "5", "6", "7", "8", "9", "A", "B", "C", "D", "E", "F">>

\* The character class [0-9a-fA-F] of HEX_REGEX.
HexClass == {LowerHex[i] : i \in DOMAIN LowerHex} \cup {UpperHex[i] : i \in DOMAIN UpperHex}

\* char::to_digit(16) of a character of the class.
ToDigit(ch) == (CHOOSE i \in DOMAIN LowerHex : LowerHex[i] = ch \/ UpperHex[i] = ch) - 1

\* u8::from_str_radix(s, 16) of a capture group: digits folded from the left.
RECURSIVE FromStrRadix(_)
FromStrRadix(s) ==
    IF s = << >> THEN 0
    ELSE 16 * FromStrRadix(SubSeq(s, 1, Len(s) - 1)) + ToDigit(s[Len(s)])

Color(r, g, b) == [red |-> r, green |-> g, blue |-> b]
ColorOk(c) == [ok |-> TRUE, color |-> c]
ColorErr == [ok |-> FALSE, color |-> Color(0, 0, 0)]

\* The arms of `match s` in try_from: the string of each arm and the Color it returns.
NamedColors ==
    { << <<"r", "e", "d">>, Color(255, 0, 0) >>,
      << <<"g", "r", "e", "e", "n">>, Color(0, 255, 0) >>,
      << <<"y", "e", "l", "l", "o", "w">>, Color(255, 255, 0) >>,
      << <<"b", "l", "u", "e">>, Color(0, 0, 255) >>,
      << <<"b", "l", "a", "c", "k">>, Color(0, 0, 0) >> }

\* HEX_REGEX.captures(s) if the pattern had no `$`: anything may follow the digits.
CapturesUnanchored(s) ==
    IF /\ Len(s) >= 7
       /\ s[1] = "#"
       /\ \A i \in 2..7 : s[i] \in HexClass
    THEN [matched |-> TRUE,
          groups |-> <<SubSeq(s, 2, 3), SubSeq(s, 4, 5), SubSeq(s, 6, 7)>>]
    ELSE [matched |-> FALSE, groups |-> << >>]

\* HEX_REGEX.captures(s): `^`, '#', three groups of two characters of the class, `$`.
Captures(s) ==
    IF /\ Len(s) = 7
       /\ s[1] = "#"
       /\ \A i \in 2..7 : s[i] \in HexClass
    THEN [matched |-> TRUE,
          groups |-> <<SubSeq(s, 2, 3), SubSeq(s, 4, 5), SubSeq(s, 6, 7)>>]
    ELSE [matched |-> FALSE, groups |-> << >>]

\* <Color as TryFrom<&str>>::try_from: the names first, then the pattern.
TryFrom(s) ==
    IF \E arm \in NamedColors : arm[1] = s
    THEN ColorOk((CHOOSE arm \in NamedColors : arm[1] = s)[2])
    ELSE LET captures == Captures(s)
         IN  IF captures.matched
             THEN ColorOk(Color(FromStrRadix(captures.groups[1]),
                                FromStrRadix(captures.groups[2]),
                                FromStrRadix(captures.groups[3])))
             ELSE ColorErr

\* `{:x}` of a u8: no padding, so one digit below 16.
FormatHexUnpadded(v) ==
    IF v < 16 THEN <<LowerHex[v + 1]>>
    ELSE <<LowerHex[(v \div 16) + 1], LowerHex[(v % 16) + 1]>>

\* `{:02x}` of a u8.
FormatHex(v) == <<LowerHex[(v \div 16) + 1], LowerHex[(v % 16) + 1]>>

\* <String as From<Color>>::from.
IntoString(c) == <<"#">> \o FormatHex(c.red) \o FormatHex(c.green) \o FormatHex(c.blue)

\* One conversion: a string is put together and parsed, or a Color is given; the
\* Color is written as a string, and that string is parsed again.
NoConversion ==
    [phase |-> "input", given |-> "string", input |-> << >>, value |-> ColorErr,
     output |-> << >>, back |-> ColorErr]

\* The characters the input strings are made of: '#', digits of both cases, a letter
\* outside the class.
InputChars == {"#", "a", "F", "g"}
ColorNames == {arm[1] : arm \in NamedColors}
\* The channel values of the Colors that are given directly.
ChannelSamples == {0, 9, 160, 255}
ColorSamples == {Color(r, g, b) : r \in ChannelSamples, g \in ChannelSamples, b \in ChannelSamples}

TypeChar(ch) ==
    /\ color.phase = "input"
    /\ Len(color.input) < MaxColorLen
    /\ color' = [color EXCEPT !.input = Append(@, ch)]
    /\ UNCHANGED <<guardVars, engineVars, listenerVars, mainVars>>

TypeName(name) ==
    /\ color.phase = "input"
    /\ color.input = << >>
    /\ color' = [color EXCEPT !.input = name]
    /\ UNCHANGED <<guardVars, engineVars, listenerVars, mainVars>>

GiveColor(c) ==
    /\ color.phase = "input"
    /\ color.input = << >>
    /\ color' = [color EXCEPT !.phase = "parsed", !.given = "color", !.value = ColorOk(c)]
    /\ UNCHANGED <<guardVars, engineVars, listenerVars, mainVars>>

ParseColor ==
    /\ color.phase = "input"
    /\ color' = [color EXCEPT !.phase = "parsed", !.value = TryFrom(color.input)]
    /\ UNCHANGED <<guardVars, engineVars, listenerVars, mainVars>>

SerializeColor ==
    /\ color.phase = "parsed"
    /\ color.value.ok
    /\ color' = [color EXCEPT !.phase = "serialized", !.output = IntoString(color.value.color)]
    /\ UNCHANGED <<guardVars, engineVars, listenerVars, mainVars>>

ReparseColor ==
    /\ color.phase = "serialized"
    /\ color' = [color EXCEPT !.phase = "reparsed", !.back = TryFrom(color.output)]
    /\ UNCHANGED <<guardVars, engineVars, listenerVars, mainVars>>

ColorNext ==
    \/ \E ch \in InputChars : TypeChar(ch)
    \/ \E name \in ColorNames : TypeName(name)
    \/ \E c \in ColorSamples : GiveColor(c)
    \/ ParseColor
    \/ SerializeColor
    \/ ReparseColor

-----------------------------------------------------------------------------
(* main.rs: the tasks main spawns and waits for.                           *)

Running == [status |-> "running", failure |-> "none"]
Exited(which) == [status |-> "exited", failure |-> which]
Alive == process.status = "running"

\* renderer returns Err before its first do_redraw: XOpenDisplay fails, the Shape
\* extension is missing, a font does not load.
SetupFails ==
    /\ engine = "starting"
    /\ engine' = "failed"
    /\ UNCHANGED <<graphics, chan, lastEvent, lastSnapshot, lastExpired, nLines, nTicks,
                 nRedraws, guardVars, listenerVars, mainVars, colorVars>>

\* listener returns Err: TcpListener::bind or listener.accept() fails.
ListenerFails ==
    /\ listener = "running"
    /\ listener' = "failed"
    /\ UNCHANGED <<process, guardVars, engineVars, listenerVars, colorVars>>

\* The JoinHandle of a task is ready once the task has returned or panicked; neither
\* task returns Ok. JoinedRendererOnly is the variant of a main that awaits the
\* renderer alone.
JoinedRendererOnly(which) == which = "renderer" /\ engine = "failed"

Joined(which) ==
    \/ which = "renderer" /\ engine = "failed"
    \/ which = "listener" /\ listener = "failed"

\* main: the select over the two JoinHandles takes a ready arm, `result??` returns
\* its error from main, and the runtime is dropped with whatever task is left.
Exit(which) ==
    /\ Alive
    /\ Joined(which)
    /\ process' = Exited(which)
    /\ UNCHANGED <<listener, guardVars, engineVars, listenerVars, colorVars>>

\* The two tasks and one connection, for as long as the process is alive.
ProcessNext ==
    \/ Alive /\ Accept(1)
    \/ Alive /\ \E n \in DOMAIN task, ln \in ListenerLines : ReadLine(n, ln, MaxLines)
    \/ Alive /\ \E n \in DOMAIN task : Send(n)
    \/ Alive /\ \E n \in DOMAIN task : Close(n)
    \/ Alive /\ SetupFails
    \/ Alive /\ Start
    \/ Alive /\ Receive
    \/ Alive /\ Tick
    \/ Alive /\ ListenerFails
    \/ \E which \in {"renderer", "listener"} : Exit(which)

-----------------------------------------------------------------------------
(* The specifications. *)

\* The process at start: the statics of x11.rs as initialised, no thread inside a
\* constructor; the renderer just before its first do_redraw, the channel empty.
Init ==
    /\ XLIB_THREAD_STATE = "Unchosen"
    /\ pc = [t \in Threads |-> "idle"]
    /\ op = [t \in Threads |-> "none"]
    /\ ret = [t \in Threads |-> "none"]
    /\ nExclusive = 0
    /\ nShared = 0
    /\ initCalls = 0
    /\ graphics = [k \in {VersionKey} |-> SomeSlot(VersionGraphic)]
    /\ chan = << >>
    /\ engine = "starting"
    /\ lastEvent = "none"
    /\ lastSnapshot = [k \in {} |-> NoneSlot]
    /\ lastExpired = << >>
    /\ nLines = 0
    /\ nTicks = 0
    /\ nRedraws = 0
    /\ client_id = 0
    /\ task = << >>
    /\ listener = "running"
    /\ process = Running
    /\ color = NoConversion

GuardSpec == Init /\ [][GuardNext]_vars

\* The threaded constructor alone: the threads never ask for an XlibHandle. A thread
\* that is inside the constructor keeps running (the OS schedules every thread).
ThreadedSpec ==
    /\ Init
    /\ [][ThreadedNext]_vars
    /\ \A t \in Threads : WF_vars(ThreadedCas(t) \/ ThreadedInit(t) \/ ThreadedStore(t))

\* Both constructors, every thread that is inside one keeps running.
GuardFairSpec ==
    /\ Init
    /\ [][GuardNext]_vars
    /\ \A t \in Threads :
          /\ WF_vars(ExclusiveStep(t))
          /\ WF_vars(ThreadedCas(t) \/ ThreadedInit(t) \/ ThreadedStore(t))

EngineSpec == Init /\ [][EngineNext]_vars

\* The engine with its timer: interval.tick() is ready once a period, and select!
\* takes a ready arm sooner or later, so the tick arm is not passed over for ever.
TickSpec ==
    /\ Init
    /\ [][TickNext]_vars
    /\ WF_vars(Start)
    /\ WF_vars(Tick)

\* The accept loop of the listener.
AcceptSpec == Init /\ [][AcceptNext]_vars

\* The accept loop up to the wrap of client_id, with the engine.
WrapSpec == Init /\ [][WrapNext]_vars

\* One connection, lines with invalid Drawable fields among those it sends.
ParseSpec == Init /\ [][ParseNext]_vars

\* The whole process. The runtime polls main once a JoinHandle is ready.
ProcessSpec ==
    /\ Init
    /\ [][ProcessNext]_vars
    /\ WF_vars(\E which \in {"renderer", "listener"} : Exit(which))

\* Color's conversions applied to the strings of InputChars and to ColorSamples.
ColorSpec == Init /\ [][ColorNext]_vars

\* The listener, its tasks and the engine.
ListenerSpec == Init /\ [][ListenerNext]_vars

\* One client filling the channel. The runtime polls a task that can go on, and a
\* renderer whose rx.recv() is ready takes that arm sooner or later (select! picks
\* among the ready arms at random).
ChannelSpec ==
    /\ Init
    /\ [][ChannelNext]_vars
    /\ WF_vars(Start)
    /\ WF_vars(Receive)
    /\ \A n \in 1 .. MaxConns : WF_vars(Send(n))

-----------------------------------------------------------------------------
(* Properties of the handle guard. *)

Returned(t, kind, value) == pc[t] = "idle" /\ op[t] = kind /\ ret[t] = value

\* C1: whenever two or more handles (of either kind) are alive, the register holds
\* MultiThreaded.
C1_TwoHandlesOnlyMultiThreaded ==
    nExclusive + nShared >= 2 => XLIB_THREAD_STATE = "MultiThreaded"

C1_Witness ==
    /\ nExclusive >= 1
    /\ nShared >= 1
    /\ \E t \in Threads : Returned(t, "exclusive", "Some")

\* C2: a thread whose first compare_exchange in XlibHandle::new meets SingleThreaded
\* returns None and leaves the register and the live handles as they were; and
\* while the register does not hold MultiThreaded at most one XlibHandle is alive.
C2_ExclusiveBusyReturnsNone ==
    [][/\ XLIB_THREAD_STATE' # "MultiThreaded" => nExclusive' <= 1
       /\ \A t \in Threads :
             (pc[t] = "ex_cas" /\ XLIB_THREAD_STATE = "SingleThreaded" /\ pc'[t] # pc[t])
             => /\ pc'[t] = "idle"
                /\ ret'[t] = "None"
                /\ XLIB_THREAD_STATE' = XLIB_THREAD_STATE
                /\ nExclusive' = nExclusive]_vars

C2_Witness ==
    /\ XLIB_THREAD_STATE = "SingleThreaded"
    /\ nExclusive = 1
    /\ \E t \in Threads : Returned(t, "exclusive", "None")

C4_ReleaseReopens ==
    [][nExclusive' < nExclusive
       => /\ XLIB_THREAD_STATE = "SingleThreaded"
             => XLIB_THREAD_STATE' = "ExSingleThreaded"
          /\ XLIB_THREAD_STATE = "MultiThreaded"
             => XLIB_THREAD_STATE' = "MultiThreaded"]_vars

\* C5: with threads racing through XlibThreadedHandle::new from Unchosen, every
\* thread inside the constructor eventually returns a handle; it never leaves the
\* constructor while the register holds MultiThreadedPending, and when it does
\* return the register holds MultiThreaded.
C5_ConcurrentSharedAllSucceed ==
    /\ \A t \in Threads : (pc[t] # "idle") ~> Returned(t, "shared", "Some")
    /\ [][\A t \in Threads :
             /\ (pc[t] = "th_cas" /\ XLIB_THREAD_STATE = "MultiThreadedPending")
                => pc'[t] = "th_cas" /\ ret'[t] = "pending"
             /\ (pc[t] # "idle" /\ pc'[t] = "idle")
                => ret'[t] = "Some" /\ XLIB_THREAD_STATE' = "MultiThreaded"]_vars

C5_Witness ==
    \E t1, t2 \in Threads :
        /\ t1 # t2
        /\ XLIB_THREAD_STATE = "MultiThreadedPending"
        /\ pc[t1] = "th_store"
        /\ pc[t2] = "th_cas"

\* C6: XInitThreads is called at most once, by the one thread that won the
\* compare_exchange from Unchosen: it has not been called while the register holds
\* a single-threaded state, exactly one thread is about it while the register holds
\* MultiThreadedPending, and it has been called once when the register holds
\* MultiThreaded.
Initialising == {t \in Threads : pc[t] \in {"th_init", "th_store"}}

C6_InitThreadsOnce ==
    /\ initCalls <= 1
    /\ XLIB_THREAD_STATE \in {"Unchosen", "SingleThreaded", "ExSingleThreaded"}
       => initCalls = 0 /\ Initialising = {}
    /\ XLIB_THREAD_STATE = "MultiThreadedPending" => Cardinality(Initialising) = 1
    /\ XLIB_THREAD_STATE = "MultiThreaded" => initCalls = 1 /\ Initialising = {}
    /\ \A t \in Threads : pc[t] = "th_store" => initCalls = 1
    /\ \A t \in Threads : pc[t] = "th_init" => initCalls = 0

C6_Witness ==
    /\ initCalls = 1
    /\ \E t1, t2 \in Threads :
          t1 # t2 /\ Returned(t1, "shared", "Some") /\ Returned(t2, "shared", "Some")

\* C7: once the register holds MultiThreaded no step changes it.
C7_MultiThreadedIsPermanent ==
    [][XLIB_THREAD_STATE = "MultiThreaded" => XLIB_THREAD_STATE' = "MultiThreaded"]_vars

C7_Witness ==
    /\ XLIB_THREAD_STATE = "MultiThreaded"
    /\ nExclusive = 0
    /\ nShared >= 1
    /\ \E t \in Threads : Returned(t, "exclusive", "Some")

\* The single-threaded states of the register.
SingleStates == {"SingleThreaded", "ExSingleThreaded"}

\* C26: the register gets to MultiThreadedPending from Unchosen only, and from a
\* single-threaded state it gets to neither MultiThreadedPending nor MultiThreaded;
\* XInitThreads is called only while the register holds MultiThreadedPending, by
\* the thread that brought it there, with no XlibHandle alive or returned.
C26_InitOnlyFromUnchosen ==
    [][/\ XLIB_THREAD_STATE \in SingleStates => XLIB_THREAD_STATE' \in SingleStates
       /\ (XLIB_THREAD_STATE' = "MultiThreadedPending" /\ XLIB_THREAD_STATE' # XLIB_THREAD_STATE)
          => XLIB_THREAD_STATE = "Unchosen"
       /\ (XLIB_THREAD_STATE' = "MultiThreaded" /\ XLIB_THREAD_STATE' # XLIB_THREAD_STATE)
          => XLIB_THREAD_STATE = "MultiThreadedPending"
       /\ initCalls' # initCalls
          => /\ XLIB_THREAD_STATE = "MultiThreadedPending"
             /\ nExclusive = 0
             /\ \A t \in Threads : ~(op[t] = "exclusive" /\ ret[t] = "Some")]_vars

C26_Witness ==
    /\ XLIB_THREAD_STATE = "SingleThreaded"
    /\ initCalls = 0
    /\ nExclusive = 1
    /\ \E t1, t2 \in Threads :
          /\ Returned(t1, "exclusive", "Some")
          /\ Returned(t2, "shared", "None")

\* C27: a thread whose compare_exchange in XlibHandle::new meets MultiThreaded
\* returns a handle, however many handles are alive, and the register stays
\* MultiThreaded; one that meets MultiThreadedPending stays in the constructor; and
\* a thread that is in the constructor while the register holds either of the two
\* ends up with a handle.
C27_ExclusiveUnderMultiThreaded ==
    /\ [][\A t \in Threads :
             /\ (pc[t] = "ex_cas" /\ XLIB_THREAD_STATE = "MultiThreaded" /\ pc'[t] # pc[t])
                => /\ Returned(t, "exclusive", "Some")'
                   /\ XLIB_THREAD_STATE' = "MultiThreaded"
                   /\ nExclusive' = nExclusive + 1
             /\ (pc[t] = "ex_cas" /\ XLIB_THREAD_STATE = "MultiThreadedPending")
                => pc'[t] = "ex_cas" /\ ret'[t] = "pending"]_vars
    /\ \A t \in Threads :
          (pc[t] = "ex_cas" /\ XLIB_THREAD_STATE \in {"MultiThreadedPending", "MultiThreaded"})
             ~> Returned(t, "exclusive", "Some")

C27_Witness ==
    /\ XLIB_THREAD_STATE = "MultiThreaded"
    /\ nExclusive = 2
    /\ nShared = 1
    /\ \E t1, t2 \in Threads :
          t1 # t2 /\ Returned(t1, "exclusive", "Some") /\ Returned(t2, "exclusive", "Some")

\* Thread t comes out of XlibHandle::new with None in the step at hand.
TurnedAway(t) ==
    /\ op[t] = "exclusive"
    /\ pc[t] \in {"ex_cas", "ex_cas2"}
    /\ pc'[t] = "idle"
    /\ ret'[t] = "None"

\* C28 (as claimed): of the threads that call XlibHandle::new once the XlibHandle
\* has been released, one gets the handle and the others get None without a panic:
\* so a caller is turned away only while a handle is alive, and no call panics.
C28_ReleasedHandleGoesToOneCaller ==
    [][\A t \in Threads :
          /\ TurnedAway(t) => nExclusive >= 1
          /\ pc'[t] # "panicked"]_vars

\* C29: no thread ever takes an unreachable!() or panic!() arm of the two
\* constructors; a thread at its second compare_exchange (it has seen
\* ExSingleThreaded) finds the register in a single-threaded state.
C29_NoPanicArmTaken ==
    /\ \A t \in Threads : pc[t] # "panicked" /\ ret[t] # "panic"
    /\ (\E t \in Threads : pc[t] = "ex_cas2") => XLIB_THREAD_STATE \in SingleStates

C29_Witness ==
    /\ XLIB_THREAD_STATE = "MultiThreaded"
    /\ \E t1, t2, t3 \in Threads :
          /\ Returned(t1, "shared", "Some")
          /\ Returned(t2, "exclusive", "Some")
          /\ pc[t3] = "ex_cas"
          /\ ret[t3] = "pending"

-----------------------------------------------------------------------------
(* Properties of the overlay engine. *)

IsReceive == chan # << >> /\ chan' = Tail(chan)
IsTick == nTicks' = nTicks + 1

Live(m, k) == k \in DOMAIN m /\ m[k].some
InChannel == {chan[i].graphic.uid : i \in DOMAIN chan}

\* A value that has left the map (it was sent, and is neither waiting in the
\* channel nor in the map) is in no snapshot from then on.
GoneStaysGone ==
    \A u \in 1 .. nLines :
        (u \notin InChannel /\ u \notin LiveUids(graphics)) => u \notin LiveUids(lastSnapshot')

\* C8: when a command is received for a key that holds a graphic with a Drawable,
\* the redraw for that command gets the old graphic exactly once in its expired
\* list and not in its snapshot, and no later snapshot holds it.
C8_ReplacedIsExpiredOnce ==
    [][/\ GoneStaysGone
       /\ IsReceive =>
             LET k == <<Head(chan).client_id, Head(chan).graphic.id>>
             IN (Live(graphics, k) /\ graphics[k].graphic.drawable # NoDrawable) =>
                   /\ lastEvent' = "command"
                   /\ Occurrences(lastExpired', graphics[k].graphic.uid) = 1
                   /\ graphics[k].graphic \in Range(lastExpired')
                   /\ graphics[k].graphic.uid \notin LiveUids(lastSnapshot')
                   /\ Live(lastSnapshot', k)
                   /\ lastSnapshot'[k].graphic.uid = Head(chan).graphic.uid]_vars

C8_Witness ==
    /\ engine = "running"
    /\ lastEvent = "command"
    /\ Len(lastExpired) = 1
    /\ lastExpired[1].uid >= 1
    /\ lastExpired[1].drawable # NoDrawable

\* C9 (as the code has it): a graphic inserted with ttl T > 0 and not replaced is in
\* the snapshot of each of the first T ticks after its insertion and in no expired
\* list of them; the (T+1)-th tick has it in its expired list exactly once and not
\* in its snapshot, and no later snapshot holds it.
C9_ExpiresOnTickAfterTtl ==
    [][/\ GoneStaysGone
       /\ IsTick =>
             /\ \A k \in DOMAIN graphics :
                   (graphics[k].some /\ graphics[k].graphic.ttl0 > 0) =>
                      LET g == graphics[k].graphic
                      IN /\ g.age <= g.ttl0
                         /\ g.age < g.ttl0 =>
                               /\ Live(lastSnapshot', k)
                               /\ lastSnapshot'[k].graphic.uid = g.uid
                               /\ Occurrences(lastExpired', g.uid) = 0
                         /\ g.age = g.ttl0 =>
                               /\ Occurrences(lastExpired', g.uid) = 1
                               /\ g.uid \notin LiveUids(lastSnapshot')
             /\ \A i \in DOMAIN lastExpired' :
                   lastExpired'[i].ttl0 > 0 => lastExpired'[i].age = lastExpired'[i].ttl0 + 1]_vars

C9_Witness ==
    /\ lastEvent = "tick"
    /\ \E i \in DOMAIN lastExpired :
          /\ lastExpired[i].ttl0 = 1
          /\ lastExpired[i].age = 2
          /\ lastExpired[i].uid \notin LiveUids(lastSnapshot)

\* C9 (as claimed): the T-th tick after the insertion has the graphic in its expired
\* list and not in its snapshot.
C9_ExpiresOnTickTtl ==
    [][IsTick =>
          \A k \in DOMAIN graphics :
             (/\ graphics[k].some
              /\ graphics[k].graphic.ttl0 > 0
              /\ graphics[k].graphic.age = graphics[k].graphic.ttl0 - 1) =>
                /\ Occurrences(lastExpired', graphics[k].graphic.uid) = 1
                /\ graphics[k].graphic.uid \notin LiveUids(lastSnapshot')]_vars

\* C10: with FPS = 1 a Text graphic sent with ttl 2 is stored with ttl 2; it is in
\* the snapshots of the first and of the second tick after that, the third tick has
\* it in its expired list and not in its snapshot, and no later snapshot holds it.
C10_TextTtlTwoAtOneFps ==
    [][/\ FPS = 1
       /\ GoneStaysGone
       /\ (/\ IsReceive
           /\ Head(chan).graphic.ttl = 2
           /\ Head(chan).graphic.drawable = "Text") =>
             LET k == <<Head(chan).client_id, Head(chan).graphic.id>>
             IN /\ Live(lastSnapshot', k)
                /\ lastSnapshot'[k].graphic.uid = Head(chan).graphic.uid
                /\ lastSnapshot'[k].graphic.ttl = 2
                /\ lastSnapshot'[k].graphic.age = 0
       /\ IsTick =>
             \A k \in DOMAIN graphics :
                (/\ graphics[k].some
                 /\ graphics[k].graphic.drawable = "Text"
                 /\ graphics[k].graphic.ttl0 = 2) =>
                   LET g == graphics[k].graphic
                   IN /\ g.age \in {0, 1, 2}
                      /\ g.age \in {0, 1} =>
                            /\ Live(lastSnapshot', k)
                            /\ lastSnapshot'[k].graphic.uid = g.uid
                            /\ Occurrences(lastExpired', g.uid) = 0
                      /\ g.age = 2 =>
                            /\ Occurrences(lastExpired', g.uid) = 1
                            /\ ~Live(lastSnapshot', k)]_vars

C10_Witness ==
    /\ lastEvent = "tick"
    /\ nTicks = 3
    /\ \E i \in DOMAIN lastExpired :
          /\ lastExpired[i].drawable = "Text"
          /\ lastExpired[i].ttl0 = 2
          /\ lastExpired[i].age = 3
          /\ lastExpired[i].uid \notin LiveUids(lastSnapshot)

\* C11: a graphic stored with a negative ttl stays at its key with that ttl: a tick
\* has it in its snapshot, ttl unchanged, and not in its expired list; a command for
\* another key leaves it as it is; a command stores a negative ttl as it was sent.
\* Only a command for its own key takes it out of the map.
C11_NegativeTtlStays ==
    [][/\ \A k \in DOMAIN graphics :
             (graphics[k].some /\ graphics[k].graphic.ttl < 0) =>
                LET g == graphics[k].graphic
                IN /\ IsTick =>
                         /\ Live(lastSnapshot', k)
                         /\ lastSnapshot'[k].graphic.uid = g.uid
                         /\ lastSnapshot'[k].graphic.ttl = g.ttl
                         /\ lastSnapshot'[k].graphic.age = g.age + 1
                         /\ Occurrences(lastExpired', g.uid) = 0
                   /\ (IsReceive /\ k # <<Head(chan).client_id, Head(chan).graphic.id>>) =>
                         /\ Live(lastSnapshot', k)
                         /\ lastSnapshot'[k].graphic = g
                         /\ Occurrences(lastExpired', g.uid) = 0
                   /\ (~IsTick /\ ~IsReceive) => (Live(graphics', k) /\ graphics'[k].graphic = g)
       /\ (IsReceive /\ Head(chan).graphic.ttl < 0) =>
             LET k == <<Head(chan).client_id, Head(chan).graphic.id>>
             IN /\ Live(lastSnapshot', k)
                /\ lastSnapshot'[k].graphic.uid = Head(chan).graphic.uid
                /\ lastSnapshot'[k].graphic.ttl = Head(chan).graphic.ttl]_vars

C11_Witness ==
    /\ lastEvent = "tick"
    /\ engine = "running"
    /\ \E k \in DOMAIN lastSnapshot :
          /\ k # VersionKey
          /\ lastSnapshot[k].some
          /\ lastSnapshot[k].graphic.ttl0 = -1
          /\ lastSnapshot[k].graphic.ttl = -1
          /\ lastSnapshot[k].graphic.age = MaxTicks

\* The rx.recv step at hand takes a deletion command (ttl 0, no Drawable).
IsDeletion ==
    /\ IsReceive
    /\ Head(chan).graphic.ttl = 0
    /\ Head(chan).graphic.drawable = NoDrawable

\* C12: a deletion command for a key that holds a graphic takes the key out of the
\* map at once: the redraw it triggers has no entry for the key in its snapshot and
\* has the removed graphic exactly once in its expired list, and the engine goes on.
C12_DeletionRemovesAtOnce ==
    [][IsDeletion =>
          LET k == <<Head(chan).client_id, Head(chan).graphic.id>>
          IN (Live(graphics, k) /\ graphics[k].graphic.drawable # NoDrawable) =>
                /\ Occurrences(lastExpired', graphics[k].graphic.uid) = 1
                /\ k \notin DOMAIN lastSnapshot'
                /\ k \notin DOMAIN graphics'
                /\ engine' = "running"]_vars

\* What the code does with it: the marker itself is stored under the key and handed
\* to the redraw in the snapshot, and the redraw fails on its missing Drawable.
DeletionStoresMarker ==
    [][IsDeletion =>
          LET k == <<Head(chan).client_id, Head(chan).graphic.id>>
          IN /\ Live(lastSnapshot', k)
             /\ lastSnapshot'[k].graphic.uid = Head(chan).graphic.uid
             /\ lastSnapshot'[k].graphic.drawable = NoDrawable
             /\ engine' = "failed"
             /\ (Live(graphics, k) /\ graphics[k].graphic.drawable # NoDrawable) =>
                   Occurrences(lastExpired', graphics[k].graphic.uid) = 1]_vars

\* C13: a command for key (c, i) leaves every other entry of the map as it was, and
\* puts none of them on the expired list: an entry (c', i) of another client with
\* the same graphic id is still there, the same graphic with the same ttl.
C13_OtherKeysUntouched ==
    [][IsReceive =>
          LET k == <<Head(chan).client_id, Head(chan).graphic.id>>
          IN /\ DOMAIN graphics' = DOMAIN graphics \cup {k}
             /\ \A x \in DOMAIN graphics \ {k} :
                   /\ graphics'[x] = graphics[x]
                   /\ lastSnapshot'[x] = graphics[x]
                   /\ graphics[x].some =>
                         Occurrences(lastExpired', graphics[x].graphic.uid) = 0]_vars

C13_Witness ==
    /\ lastEvent = "command"
    /\ engine = "running"
    /\ lastExpired = << >>
    /\ \E i \in Ids :
          /\ Live(lastSnapshot, <<1, i>>)
          /\ Live(lastSnapshot, <<2, i>>)
          /\ lastSnapshot[<<1, i>>].graphic.uid # lastSnapshot[<<2, i>>].graphic.uid

\* The redraw of the last step was the one before the loop.
FirstRedraw == lastEvent = "start"

\* C14 (as the code has it): before any command or tick the engine redraws exactly
\* once; that redraw is handed an empty expired list and a map that holds one
\* entry, the built-in text under (0, "version-number") with ttl -1.
C14_FirstRedrawShowsVersion ==
    /\ engine = "starting" => (nRedraws = 0 /\ nTicks = 0 /\ lastEvent = "none")
    /\ FirstRedraw <=> nRedraws = 1
    /\ lastEvent \in {"command", "tick"} => nRedraws > 1
    /\ FirstRedraw =>
          /\ nTicks = 0
          /\ LiveUids(graphics) = {VersionGraphic.uid}
          /\ lastExpired = << >>
          /\ DOMAIN lastSnapshot = {VersionKey}
          /\ lastSnapshot[VersionKey] = SomeSlot(VersionGraphic)
          /\ VersionGraphic.ttl = -1
          /\ VersionGraphic.drawable = "Text"

C14_Witness ==
    /\ FirstRedraw
    /\ engine = "running"
    /\ nRedraws = 1
    /\ chan # << >>

\* C14 (as claimed): the redraw before the loop is handed an empty map and an empty
\* expired list.
C14_FirstRedrawIsEmpty ==
    FirstRedraw => (nRedraws = 1 /\ DOMAIN lastSnapshot = {} /\ lastExpired = << >>)

\* The step at hand is a redraw for the event named.
Redrawn(event) == nRedraws' # nRedraws /\ lastEvent' = event

\* The uids of the channel, oldest first, go up: the channel holds the commands in
\* the order of their sends; and what the map holds was sent before all of them.
InSendOrder ==
    /\ \A i, j \in DOMAIN chan : i < j => chan[i].graphic.uid < chan[j].graphic.uid
    /\ \A i \in DOMAIN chan : \A u \in LiveUids(graphics) : u < chan[i].graphic.uid

\* C15: a step of the engine handles one event and redraws once: a command step
\* takes the oldest command of the channel, and that one only, and stores it; a tick
\* step takes none; nothing changes the map or takes from the channel without a
\* redraw in the same step, and after a redraw that failed no event is handled.
\* Commands are stored in the order of their sends.
C15_OneEventOneRedrawInOrder ==
    [][/\ InSendOrder
       /\ nRedraws' # nRedraws => nRedraws' = nRedraws + 1
       /\ (graphics' # graphics \/ Len(chan') < Len(chan) \/ nTicks' # nTicks) =>
             (nRedraws' = nRedraws + 1 /\ engine = "running")
       /\ Redrawn("command") =>
             LET k == <<Head(chan).client_id, Head(chan).graphic.id>>
             IN /\ chan # << >>
                /\ chan' = Tail(chan)
                /\ nTicks' = nTicks
                /\ Live(lastSnapshot', k)
                /\ lastSnapshot'[k].graphic.uid = Head(chan).graphic.uid
                /\ LiveUids(graphics') \subseteq LiveUids(graphics) \cup {Head(chan).graphic.uid}
                /\ \A i \in DOMAIN chan' :
                      chan'[i].graphic.uid \notin LiveUids(lastSnapshot')
       /\ Redrawn("tick") => (chan' = chan /\ nTicks' = nTicks + 1)
       /\ Redrawn("start") => (chan' = chan /\ nTicks' = nTicks /\ graphics' = graphics)
       /\ nRedraws' = nRedraws =>
             \/ chan' = chan
             \/ (Len(chan') = Len(chan) + 1 /\ SubSeq(chan', 1, Len(chan)) = chan)]_vars

C15_Witness ==
    /\ lastEvent = "command"
    /\ engine = "running"
    /\ nRedraws >= 2
    /\ Len(chan) = 1
    /\ chan[1].graphic.uid = 2
    /\ 1 \in LiveUids(lastSnapshot)
    /\ lastSnapshot = graphics

\* The graphics of the map whose ttl is 0.
ZeroTtl(m) == {m[k].graphic.uid : k \in {x \in DOMAIN m : m[x].some /\ m[x].graphic.ttl = 0}}

\* The uids of a list of graphics.
Uids(q) == {q[i].uid : i \in DOMAIN q}

\* C16: the snapshot of a redraw is the whole map as the event left it, and its
\* expired list holds the graphics that event took out of the map, each once and
\* nothing else: none for the redraw before the loop; for a command the graphic the
\* key held before, if it held one; for a tick the graphics whose ttl was 0 when
\* the tick began, while all the others stay in the map.
C16_SnapshotAndExpiredOfTheEvent ==
    [][nRedraws' # nRedraws =>
          /\ lastSnapshot' = graphics'
          /\ \A u \in Uids(lastExpired') :
                /\ Occurrences(lastExpired', u) = 1
                /\ u \in LiveUids(graphics)
                /\ u \notin LiveUids(graphics')
          /\ Uids(lastExpired') = LiveUids(graphics) \ LiveUids(graphics')
          /\ Redrawn("start") => lastExpired' = << >>
          /\ Redrawn("command") =>
                LET k == <<Head(chan).client_id, Head(chan).graphic.id>>
                IN /\ Len(lastExpired') <= 1
                   /\ lastExpired' = IF Live(graphics, k) THEN <<graphics[k].graphic>> ELSE << >>
          /\ Redrawn("tick") =>
                /\ Uids(lastExpired') = ZeroTtl(graphics)
                /\ Len(lastExpired') = Cardinality(ZeroTtl(graphics))
                /\ LiveUids(graphics') = LiveUids(graphics) \ ZeroTtl(graphics)]_vars

C16_Witness ==
    /\ lastEvent = "tick"
    /\ engine = "running"
    /\ Len(lastExpired) = 2
    /\ lastExpired[1].uid # lastExpired[2].uid
    /\ lastSnapshot = graphics
    /\ Cardinality(DOMAIN lastSnapshot) = 1

\* C30 (as claimed): every graphic handed to a redraw, in the snapshot or in the
\* expired list, has a Drawable, and the engine never fails in a redraw, whatever
\* commands it is sent.
C30_RedrawNeverPanics ==
    /\ engine # "failed"
    /\ \A k \in DOMAIN lastSnapshot :
          lastSnapshot[k].some /\ lastSnapshot[k].graphic.drawable # NoDrawable
    /\ \A i \in DOMAIN lastExpired : lastExpired[i].drawable # NoDrawable

\* The map holds the graphic of line u, its ttl not negative and no larger than the
\* ticks that are left allow for.
RunsOut(u) ==
    \E k \in DOMAIN graphics :
        /\ graphics[k].some
        /\ graphics[k].graphic.uid = u
        /\ graphics[k].graphic.ttl >= 0
        /\ nTicks + graphics[k].graphic.ttl < MaxTicks

\* C33: while the ticks go on, a graphic stored with a ttl that is not negative leaves
\* the map, by a tick or by a command for its key: a tick counts a ttl above 0 down
\* by one and leaves the graphic in place, takes a graphic with ttl 0 out and hands
\* it to its redraw once; the ttl is never negative on the way; and a graphic that
\* has been handed to a redraw as expired is out of the map and does not come back.
C33_NonNegativeTtlRunsOut ==
    /\ [](\A k \in DOMAIN graphics :
             (graphics[k].some /\ graphics[k].graphic.ttl0 >= 0) => graphics[k].graphic.ttl >= 0)
    /\ [][IsTick =>
             \A k \in DOMAIN graphics :
                (graphics[k].some /\ graphics[k].graphic.ttl0 >= 0) =>
                   LET g == graphics[k].graphic
                   IN /\ g.ttl > 0 =>
                            /\ Live(graphics', k)
                            /\ graphics'[k].graphic.uid = g.uid
                            /\ graphics'[k].graphic.ttl = g.ttl - 1
                            /\ Occurrences(lastExpired', g.uid) = 0
                      /\ g.ttl = 0 =>
                            /\ g.uid \notin LiveUids(graphics')
                            /\ Occurrences(lastExpired', g.uid) = 1]_vars
    /\ [][/\ GoneStaysGone
          /\ nRedraws' # nRedraws =>
                \A u \in Uids(lastExpired') :
                   /\ Occurrences(lastExpired', u) = 1
                   /\ u \in LiveUids(graphics)
                   /\ u \notin LiveUids(graphics')
                   /\ u \notin InChannel]_vars
    /\ \A u \in 1 .. MaxLines :
          RunsOut(u) ~> (u \notin LiveUids(graphics) \/ engine = "failed")

\* The last tick of the run has taken out a graphic that was sent with ttl 2,
\* counted down to 0 and found at 0, while the engine runs on.
C33_Witness ==
    /\ lastEvent = "tick"
    /\ engine = "running"
    /\ nTicks = MaxTicks
    /\ Len(lastExpired) = 1
    /\ lastExpired[1].ttl0 = 2
    /\ lastExpired[1].ttl = 0
    /\ lastExpired[1].uid \notin LiveUids(graphics)

\* C31: no slot of the map is None between two events, and none in the snapshot of a
\* redraw: a tick takes the key of every slot it empties out of the map before its
\* redraw.
C31_NoEmptySlotOutsideTick ==
    /\ [](\A k \in DOMAIN graphics : graphics[k].some)
    /\ [](\A k \in DOMAIN lastSnapshot : lastSnapshot[k].some)
    /\ [][IsTick =>
             \A k \in DOMAIN graphics :
                (graphics[k].some /\ graphics[k].graphic.ttl = 0) =>
                   /\ k \notin DOMAIN graphics'
                   /\ k \notin DOMAIN lastSnapshot']_vars

\* A tick has emptied the slot of the one graphic a client had sent: the map and the
\* snapshot are back to the built-in entry.
C31_Witness ==
    /\ lastEvent = "tick"
    /\ Len(lastExpired) = 1
    /\ lastExpired[1].ttl = 0
    /\ DOMAIN graphics = {VersionKey}
    /\ DOMAIN lastSnapshot = {VersionKey}
    /\ lastSnapshot[VersionKey].some

-----------------------------------------------------------------------------
(* Properties of the listener tasks and of the channel. *)

\* Task n has read a line in the step at hand.
HasRead(n) == nLines' = nLines + 1 /\ task'[n].line.uid = nLines'

\* Task n has got the answer of tx.send in the step at hand.
HasSent(n) == task[n].status = "sending" /\ task'[n].status # "sending"

\* The state of the engine and the channel stay as they are.
EngineUntouched ==
    /\ chan' = chan
    /\ graphics' = graphics
    /\ engine' = engine
    /\ nRedraws' = nRedraws
    /\ lastSnapshot' = lastSnapshot
    /\ lastExpired' = lastExpired

\* C17: a task that has parsed a line into a Graphic goes on to send the Command if
\* and only if the Graphic has a Drawable or its ttl is 0, and what it then puts in
\* the channel is that Graphic under the task's client id. So a command without a
\* Drawable in the channel, or taken by the engine, has ttl 0; and a line without a
\* Drawable and with another ttl changes neither the channel nor the map, then or
\* later.
C17_ForwardedIffDrawableOrTtlZero ==
    [][/\ \A n \in DOMAIN task :
             /\ (HasRead(n) /\ task'[n].line.kind = "graphic") =>
                   LET g == task'[n].line.graphic
                   IN /\ task'[n].status = "sending" <=>
                            (g.drawable # NoDrawable \/ g.ttl = 0)
                      /\ task'[n].status # "sending" =>
                            (task'[n].status = "reading" /\ EngineUntouched)
             /\ (HasSent(n) /\ engine # "failed") =>
                   chan' = Append(chan, [client_id |-> task[n].client_id,
                                         graphic |-> task[n].line.graphic])
             /\ (/\ task[n].line.kind = "graphic"
                 /\ task[n].line.graphic.drawable = NoDrawable
                 /\ task[n].line.graphic.ttl # 0) =>
                   /\ task[n].line.uid \notin InChannel
                   /\ task[n].line.uid \notin LiveUids(graphics)
       /\ \A i \in DOMAIN chan :
             chan[i].graphic.drawable = NoDrawable => chan[i].graphic.ttl = 0
       /\ Len(chan') > Len(chan) => \E n \in DOMAIN task : HasSent(n)
       /\ \A u \in LiveUids(graphics') \ LiveUids(graphics) :
             /\ chan # << >>
             /\ u = Head(chan).graphic.uid
             /\ Head(chan).graphic.drawable = NoDrawable => Head(chan).graphic.ttl = 0]_vars

C17_Witness ==
    /\ \E n \in DOMAIN task :
          /\ task[n].status = "reading"
          /\ task[n].line.kind = "graphic"
          /\ task[n].line.graphic.drawable = NoDrawable
          /\ task[n].line.graphic.ttl = 1
    /\ \E i \in DOMAIN chan :
          /\ chan[i].graphic.drawable = NoDrawable
          /\ chan[i].graphic.ttl = 0

\* C18: a line that does not parse puts no command in the channel and leaves the
\* engine as it is, and the task that read it goes on reading; the lines it reads
\* after that are parsed and sent on like any other.
C18_BadLineIsSkipped ==
    [][\A n \in DOMAIN task :
          /\ (HasRead(n) /\ task'[n].line.kind = "error") =>
                /\ EngineUntouched
                /\ task'[n].status = "reading"
                /\ task'[n].bad = nLines'
                /\ \A m \in DOMAIN task \ {n} : task'[m] = task[m]
          /\ (HasRead(n) /\ task[n].bad > 0 /\ task'[n].line.kind = "graphic") =>
                (task'[n].status = "sending" <=> Forwarded(task'[n].line.graphic))
          /\ (HasSent(n) /\ task[n].bad > 0 /\ engine # "failed") =>
                /\ task'[n].status = "reading"
                /\ chan' = Append(chan, Pending(task[n]))]_vars

C18_Witness ==
    \E n \in DOMAIN task :
       /\ task[n].status = "reading"
       /\ task[n].bad = 1
       /\ task[n].line.kind = "graphic"
       /\ task[n].line.uid = 2
       /\ \E i \in DOMAIN chan :
             /\ chan[i].client_id = task[n].client_id
             /\ chan[i].graphic.uid = 2

\* In ChannelSpec every command is for the key (1, "a"): the number of the last
\* line whose command the engine has taken, 0 when it has taken none.
LastReceived ==
    IF Live(graphics, <<1, "a">>) THEN graphics[<<1, "a">>].graphic.uid ELSE 0

\* The numbers of the lines whose command a task is sending.
InSend == {task[n].line.uid : n \in {x \in DOMAIN task : task[x].status = "sending"}}

\* Every line read so far is accounted for: taken by the engine, in the channel in
\* the order of the sends, or with its task in tx.send; none is lost, none is twice.
NoneLost ==
    /\ \A i \in DOMAIN chan : chan[i].graphic.uid = LastReceived + i
    /\ InSend \subseteq {LastReceived + Len(chan) + 1}
    /\ nLines = LastReceived + Len(chan) + Cardinality(InSend)

\* C19: the channel never holds more than ChannelCapacity commands; a send on a
\* full channel gets no answer, the task stays in it with its command until the
\* engine has taken one; no command is lost or taken twice, the engine takes them
\* one by one in the order of the sends; and while the engine is alive every
\* command a task has set out to send is taken by the engine in the end: the
\* number of the last line taken keeps catching up with the number of lines read
\* (the lines are numbered in the order read, and the engine takes them in order,
\* so that is the same as: line u once read, LastReceived gets to u).
C19_BoundedChannelLosesNothing ==
    /\ [](Len(chan) <= ChannelCapacity)
    /\ [](engine # "failed")
    /\ [][/\ NoneLost
          /\ \A n \in DOMAIN task :
                /\ HasSent(n) =>
                      /\ Len(chan) < ChannelCapacity
                      /\ chan' = Append(chan, Pending(task[n]))
                      /\ task'[n].status = "reading"
                /\ (task[n].status = "sending" /\ Len(chan) = ChannelCapacity) =>
                      task'[n] = task[n]
          /\ Redrawn("command") =>
                /\ LastReceived' = LastReceived + 1
                /\ LastReceived' = Head(chan).graphic.uid
                /\ chan' = Tail(chan)
          /\ LastReceived' # LastReceived => Redrawn("command")]_vars
    /\ []<>(LastReceived = nLines)

C19_Witness ==
    /\ Len(chan) = ChannelCapacity
    /\ engine = "running"
    /\ LastReceived >= 1
    /\ \E n \in DOMAIN task :
          /\ task[n].status = "sending"
          /\ task[n].line.uid = LastReceived + ChannelCapacity + 1

\* The task is over: it has returned, with Ok (closed) or with Err (failed).
Over(t) == t.status \in {"closed", "failed"}

\* C20: once the engine has terminated, a task whose tx.send gets its answer gets
\* an Err and returns: it reads no more, and nothing is put in the channel. No task
\* fails in any other way: the termination of the engine changes no task, and a task
\* that is waiting for a line goes on reading, until its own send fails.
C20_SendFailsAfterEngineEnds ==
    [][/\ \A n \in DOMAIN task :
             /\ (HasSent(n) /\ engine = "failed") =>
                   /\ task'[n].status = "failed"
                   /\ EngineUntouched
                   /\ \A m \in DOMAIN task \ {n} : task'[m] = task[m]
             /\ (task'[n].status = "failed" /\ task[n].status # "failed") =>
                   (HasSent(n) /\ engine = "failed")
             /\ Over(task[n]) => task'[n] = task[n]
       /\ engine' # engine => task' = task]_vars

C20_Witness ==
    /\ engine = "failed"
    /\ \E n, m \in DOMAIN task :
          /\ task[n].status = "failed"
          /\ task[n].line.kind = "graphic"
          /\ task[n].line.uid \notin InChannel
          /\ task[m].status = "reading"

\* Task n returns with Ok in the step at hand: its connection was closed.
HasClosed(n) == task[n].status = "reading" /\ task'[n].status = "closed"

\* The keys of the map that hold a graphic of a client whose connection is closed.
OrphanKeys ==
    {k \in DOMAIN graphics :
        /\ graphics[k].some
        /\ \E n \in DOMAIN task : task[n].status = "closed" /\ task[n].client_id = k[1]}

\* C21: the step in which a connection is closed changes nothing of the engine,
\* and from then on the graphics of its client stay in the map and in every
\* snapshot: such a graphic leaves only in a tick that found its ttl at 0, or when
\* the engine takes a command that the client had sent before it closed.
C21_CloseLeavesMap ==
    [][/\ \A n \in DOMAIN task :
             HasClosed(n) =>
                /\ EngineUntouched
                /\ lastEvent' = lastEvent
                /\ \A m \in DOMAIN task \ {n} : task'[m] = task[m]
       /\ \A k \in OrphanKeys :
             \/ /\ Live(graphics', k)
                /\ graphics'[k].graphic.uid = graphics[k].graphic.uid
                /\ nRedraws' # nRedraws => lastSnapshot'[k] = graphics'[k]
             \/ /\ IsTick
                /\ graphics[k].graphic.ttl = 0
                /\ Occurrences(lastExpired', graphics[k].graphic.uid) = 1
             \/ /\ IsReceive
                /\ k = <<Head(chan).client_id, Head(chan).graphic.id>>]_vars

C21_Witness ==
    /\ lastEvent = "tick"
    /\ engine = "running"
    /\ \E k \in OrphanKeys :
          /\ Live(lastSnapshot, k)
          /\ lastSnapshot[k].graphic.age >= 1
          /\ \A i \in DOMAIN chan : chan[i].client_id # k[1]

\* A connection has been accepted in the step at hand.
HasAccepted == Len(task') = Len(task) + 1

\* C23: the first connection gets client_id 1, every further one the client_id of
\* the connection before it plus one modulo UsizeModulus; so two connections have
\* the same client_id only if they are UsizeModulus accepts (or a multiple) apart.
C23_ClientIdCountsModulo ==
    [][HasAccepted =>
          LET j == Len(task')
          IN /\ task'[j].client_id = (client_id + 1) % UsizeModulus
             /\ client_id' = task'[j].client_id
             /\ j = 1 => task'[j].client_id = 1
             /\ j > 1 => task'[j].client_id = (task[j - 1].client_id + 1) % UsizeModulus
             /\ \A i \in DOMAIN task : task'[i].client_id = task[i].client_id
             /\ \A i \in DOMAIN task :
                   j - i < UsizeModulus => task'[i].client_id # task'[j].client_id]_vars

C23_Witness ==
    /\ Len(task) > UsizeModulus
    /\ task[1].client_id = 1
    /\ task[UsizeModulus].client_id = 0
    /\ task[UsizeModulus + 1].client_id = 1
    /\ client_id = WrappingAdd(task[UsizeModulus].client_id, Len(task) - UsizeModulus)

\* C32: no connection is given client_id 0, so the entry the renderer put under
\* (0, "version-number") before its loop stays in the map and is in the snapshot of
\* every redraw.
C32_VersionEntryStays ==
    /\ \A n \in DOMAIN task : task[n].client_id # 0
    /\ Live(graphics, VersionKey)
    /\ graphics[VersionKey].graphic.uid = VersionGraphic.uid
    /\ engine # "starting" =>
          /\ Live(lastSnapshot, VersionKey)
          /\ lastSnapshot[VersionKey].graphic.uid = VersionGraphic.uid

\* What the code allows: the connection accepted when the counter wraps has client_id
\* 0, and a line of it has taken the place of the built-in entry, which the redraw
\* for that command was handed as expired.
VersionEntryReplaced ==
    /\ \E n \in DOMAIN task : task[n].client_id = 0
    /\ lastEvent = "command"
    /\ Live(lastSnapshot, VersionKey)
    /\ lastSnapshot[VersionKey].graphic.uid # VersionGraphic.uid
    /\ lastExpired = <<VersionGraphic>>

\* The last line task n read had an invalid Color or Size among its Drawable fields.
ReadInvalid(n) == task[n].invalid # 0 /\ task[n].line.uid = task[n].invalid

\* C25: a line whose Drawable fields hold an invalid Color or Size fails to parse as a
\* whole: the task has a parse error for it and no Graphic, with or without a
\* Drawable, and no command of such a line is sent or in the channel.
C25_InvalidDrawableFailsLine ==
    \A n \in DOMAIN task :
        /\ ReadInvalid(n) => task[n].line.kind = "error" /\ task[n].status # "sending"
        /\ \A i \in DOMAIN chan : chan[i].graphic.uid # task[n].invalid

-----------------------------------------------------------------------------
(* Properties of Color's conversions. *)

\* The strings the reference accepts: the five names, and '#' followed by six hex
\* digits of either case.
HexDigits ==
    {"0", "1", "2", "3", "4", "5", "6", "7", "8", "9",
     "a", "b", "c", "d", "e", "f", "A", "B", "C", "D", "E", "F"}
IsHexColor(s) == Len(s) = 7 /\ s[1] = "#" /\ \A i \in 2..7 : s[i] \in HexDigits
IsColorName(s) ==
    s \in {<<"r", "e", "d">>, <<"g", "r", "e", "e", "n">>, <<"y", "e", "l", "l", "o", "w">>,
           <<"b", "l", "u", "e">>, <<"b", "l", "a", "c", "k">>}

\* The lowercase #rrggbb string of an accepted string: the canonical hex of a name,
\* the string itself with its letters in lower case otherwise.
ToLower(ch) ==
    CASE ch = "A" -> "a" [] ch = "B" -> "b" [] ch = "C" -> "c"
      [] ch = "D" -> "d" [] ch = "E" -> "e" [] ch = "F" -> "f"
      [] OTHER -> ch
CanonicalHex(s) ==
    CASE s = <<"r", "e", "d">> -> <<"#", "f", "f", "0", "0", "0", "0">>
      [] s = <<"g", "r", "e", "e", "n">> -> <<"#", "0", "0", "f", "f", "0", "0">>
      [] s = <<"y", "e", "l", "l", "o", "w">> -> <<"#", "f", "f", "f", "f", "0", "0">>
      [] s = <<"b", "l", "u", "e">> -> <<"#", "0", "0", "0", "0", "f", "f">>
      [] s = <<"b", "l", "a", "c", "k">> -> <<"#", "0", "0", "0", "0", "0", "0">>
      [] OTHER -> [i \in 1..Len(s) |-> ToLower(s[i])]

Parsed == color.given = "string" /\ color.phase # "input"
Serialized == color.phase \in {"serialized", "reparsed"}

\* C24: try_from succeeds exactly for the five names and for '#' followed by six hex
\* digits of either case; the string written for the Color it returns is the seven
\* character lowercase #rrggbb string of the input (the canonical hex of a name); and
\* parsing the string written for any Color gives that Color back.
C24_ColorRoundTrip ==
    /\ Parsed => (color.value.ok <=> (IsColorName(color.input) \/ IsHexColor(color.input)))
    /\ Parsed /\ Serialized =>
          /\ Len(color.output) = 7
          /\ color.output = CanonicalHex(color.input)
    /\ color.phase = "reparsed" => color.back = color.value

\* A string with digits of both cases has been parsed, written in lower case and parsed
\* back.
C24_Witness ==
    /\ color.phase = "reparsed"
    /\ color.given = "string"
    /\ Len(color.input) = 7
    /\ \E i, j \in 2..7 : color.input[i] = "F" /\ color.input[j] = "a"
    /\ color.output # color.input
    /\ color.back = color.value

-----------------------------------------------------------------------------
(* Properties of the process. *)

\* C22: a redraw that fails, like a failed set-up, leaves the renderer task failed;
\* once the renderer task or the listener task has failed the process exits, with
\* the failure of a task that has failed; and after the exit no task takes a step.
C22_FailureEndsProcess ==
    /\ [][nRedraws' # nRedraws /\ RedrawPanics(lastSnapshot', lastExpired')
             => engine' = "failed"]_vars
    /\ [](~Alive => \/ process.failure = "renderer" /\ engine = "failed"
                    \/ process.failure = "listener" /\ listener = "failed")
    /\ [][~Alive => UNCHANGED vars]_vars
    /\ (engine = "failed" \/ listener = "failed") ~> ~Alive

\* The process has exited with the failure of a redraw in the renderer's loop while
\* the listener was running and a connection was open.
C22_Witness ==
    /\ ~Alive
    /\ process.failure = "renderer"
    /\ nRedraws > 1
    /\ listener = "running"
    /\ \E n \in DOMAIN task : task[n].status = "reading"

=============================================================================
